---------------------------- MODULE Spec2Model ----------------------------
(***************************************************************************)
(* Baltimore-Lifeline: the spreadsheet ingestion pass of the map view      *)
(* (map/views.py) and the offline preparation pipeline                     *)
(* (MISC/xlsx_processor.py: geocoding with a persisted cache, keyword      *)
(* recategorization, main).                                                *)
(*                                                                         *)
(* Text is a sequence of one-character strings, so that strip(), lower()   *)
(* and substring tests are computed and not assumed.  A float is a cell    *)
(* of kind "num" (whole degrees), "nan" or "inf".                          *)
(***************************************************************************)
EXTENDS Integers, Sequences, FiniteSets, TLC

VARIABLES
    \* ---- map/views.py: _load_resources_from_xlsx ----
    exists,        \* XLSX_PATH.exists()
    ws,            \* the data rows of the active sheet (row 2 onwards)
    pos,           \* 1-based index of the next data row of the for loop
    resources,     \* the list of kept records
    diag,          \* the diagnostics dict
    loadPc,        \* "start" | "loop" | "done"
    \* ---- MISC/xlsx_processor.py ----
    inputExists,   \* INPUT_PATH.exists()
    sheet,         \* the input sheet of the current run: columns and rows
    df,            \* the data frame of the current run
    parquet,       \* CACHE_PATH on disk
    csv,           \* CACHE_PATH.with_suffix(".csv") on disk
    cache_map,     \* the in-memory cache of the current run
    idx,           \* 1-based index of the next row of the geocoding loop
    updated,       \* the 'updated' counter of the current run
    output,        \* OUTPUT_PATH on disk
    mainPc,        \* position of main()
    run,           \* number of the current run of the pipeline
    calls,         \* history: the live lookups geocode(addr) of the current run,
                   \* each with its row, its outcome and whether addr was in
                   \* cache_map when it was made
    persisted,     \* history: every (query, lat, lng) a finished run has persisted
    recatRuns,     \* history: calls of recategorize_categories on df
    origDf         \* history: df before the first recategorization

loadVars == <<exists, ws, pos, resources, diag, loadPc>>
prepVars == <<inputExists, sheet, df, parquet, csv, cache_map, idx, updated,
              output, mainPc, run, calls, persisted, recatRuns, origDf>>
vars == <<loadVars, prepVars>>

-----------------------------------------------------------------------------
(* Bounds *)
MaxRows == 3
MaxPrepRows == 2
MaxRuns == 2
MaxRecatRows == 2
MaxRecatRuns == 3

-----------------------------------------------------------------------------
(* Python str helpers *)

UpperCase == <<"A","B","C","D","E","F","G","H","I","J","K","L","M","N","O","P","Q","R","S","T","U","V","W","X","Y","Z">>
LowerCase == <<"a","b","c","d","e","f","g","h","i","j","k","l","m","n","o","p","q","r","s","t","u","v","w","x","y","z">>
Digits == <<"0","1","2","3","4","5","6","7","8","9">>

IsWs(c) == c \in {" ", "\t"}

\* the lower-case letter of each upper-case letter
ToLower ==
    [c \in {UpperCase[i] : i \in 1..Len(UpperCase)} |->
        LowerCase[CHOOSE i \in 1..Len(UpperCase) : UpperCase[i] = c]]

LowerChar(c) == IF c \in DOMAIN ToLower THEN ToLower[c] ELSE c

\* str.lower()
Lower(s) == [i \in 1..Len(s) |-> LowerChar(s[i])]

RECURSIVE LStrip(_)
LStrip(s) == IF s # <<>> /\ IsWs(s[1]) THEN LStrip(Tail(s)) ELSE s

RECURSIVE RStrip(_)
RStrip(s) ==
    IF s # <<>> /\ IsWs(s[Len(s)]) THEN RStrip(SubSeq(s, 1, Len(s) - 1)) ELSE s

\* str.strip()
Strip(s) == RStrip(LStrip(s))

\* re.sub(r"\s+", " ", s): every run of whitespace becomes one space
RECURSIVE SquashWs(_)
SquashWs(s) ==
    IF s = <<>> THEN <<>>
    ELSE IF IsWs(s[1])
         THEN IF Len(s) > 1 /\ IsWs(s[2])
              THEN SquashWs(Tail(s))
              ELSE <<" ">> \o SquashWs(Tail(s))
         ELSE <<s[1]>> \o SquashWs(Tail(s))

\* k in s
Contains(s, k) ==
    \E i \in 0..(Len(s) - Len(k)) : SubSeq(s, i + 1, i + Len(k)) = k

\* str(n) of a non-negative int
RECURSIVE NatToStr(_)
NatToStr(n) ==
    IF n < 10 THEN <<Digits[n + 1]>>
    ELSE NatToStr(n \div 10) \o <<Digits[(n % 10) + 1]>>

IntToStr(n) == IF n < 0 THEN <<"-">> \o NatToStr(-n) ELSE NatToStr(n)

IsDigit(c) == \E i \in 1..Len(Digits) : Digits[i] = c

DigitVal(c) == (CHOOSE i \in 1..Len(Digits) : Digits[i] = c) - 1

RECURSIVE ParseNat(_)
ParseNat(s) ==
    IF s = <<>> THEN 0
    ELSE 10 * ParseNat(SubSeq(s, 1, Len(s) - 1)) + DigitVal(s[Len(s)])

IsNatLiteral(s) == s # <<>> /\ \A i \in 1..Len(s) : IsDigit(s[i])

-----------------------------------------------------------------------------
(* Cell values of a worksheet row *)

NoneCell == [k |-> "none", n |-> 0, s |-> <<>>]
Num(n) == [k |-> "num", n |-> n, s |-> <<>>]
NaN == [k |-> "nan", n |-> 0, s |-> <<>>]
Inf(sign) == [k |-> "inf", n |-> sign, s |-> <<>>]
Str(s) == [k |-> "str", n |-> 0, s |-> s]
\* a value whose conversion (str(x), float(x)) raises
Bad == [k |-> "bad", n |-> 0, s |-> <<>>]

\* str(x) raises
StrRaises(x) == x.k = "bad"

\* str(x)
PyStr(x) ==
    CASE x.k = "none" -> <<"N","o","n","e">>
      [] x.k = "num" -> IntToStr(x.n)
      [] x.k = "nan" -> <<"n","a","n">>
      [] x.k = "inf" -> IF x.n < 0 THEN <<"-","i","n","f">> ELSE <<"i","n","f">>
      [] OTHER -> x.s

\* float(s) of a str: a signed whole number, nan, inf/infinity; anything
\* else raises ValueError (NoneCell stands for the raise)
FloatOfStr(s) ==
    LET t == Lower(Strip(s))
        neg == t # <<>> /\ t[1] = "-"
        u == IF t # <<>> /\ t[1] \in {"-", "+"} THEN Tail(t) ELSE t
    IN  IF IsNatLiteral(u) THEN Num(IF neg THEN -ParseNat(u) ELSE ParseNat(u))
        ELSE IF u = <<"n","a","n">> THEN NaN
        ELSE IF u \in {<<"i","n","f">>, <<"i","n","f","i","n","i","t","y">>} THEN Inf(IF neg THEN -1 ELSE 1)
        ELSE NoneCell

\* _to_float: None for None, NaN and every value float() rejects
_to_float(x) ==
    IF x.k = "none" THEN NoneCell
    ELSE LET f == IF x.k = "str" THEN FloatOfStr(x.s)
                  ELSE IF x.k = "bad" THEN NoneCell
                  ELSE x
         IN  IF f.k = "nan" THEN NoneCell ELSE f

\* a <= b on floats
FLe(a, b) ==
    IF a.k = "inf" THEN a.n < 0 \/ (b.k = "inf" /\ b.n > 0)
    ELSE IF b.k = "inf" THEN b.n > 0
    ELSE a.n <= b.n

\* InRange with the upper limits excluded (a fault C2 must detect)
InRangeExclusive(lat, lng) ==
    /\ FLe(Num(-90), lat) /\ FLe(lat, Num(89))
    /\ FLe(Num(-180), lng) /\ FLe(lng, Num(179))

\* -90 <= lat <= 90 and -180 <= lng <= 180
InRange(lat, lng) ==
    /\ FLe(Num(-90), lat) /\ FLe(lat, Num(90))
    /\ FLe(Num(-180), lng) /\ FLe(lng, Num(180))

-----------------------------------------------------------------------------
(* map/views.py: _load_resources_from_xlsx *)

\* row 1 of the sheet (the headers the docstring expects, those the record
\* fields modelled here are read from)
headers == << <<"I","D">>, <<"R","e","l","i","a","b","i","l","i","t","y"," ","R","a","t","e"," ","1","-","1","0">>, <<"L","a","t","i","t","u","d","e">>, <<"L","o","n","g","i","t","u","d","e">> >>

\* norm(s)
norm(s) == SquashWs(Lower(Strip(s)))

\* line 87: the normalized header of every column
header_map == [i \in 1..Len(headers) |-> norm(headers[i])]

\* header_map.get(name): the last column whose normalized header is name,
\* 0 for None
header_map_get(name) ==
    LET hits == {i \in 1..Len(headers) : header_map[i] = name}
    IN  IF hits = {} THEN 0 ELSE CHOOSE i \in hits : \A j \in hits : j <= i

\* grab(row, *names, default=...)
RECURSIVE grab(_, _, _)
grab(row, names, default) ==
    IF names = <<>> THEN default
    ELSE LET i == header_map_get(norm(names[1]))
         IN  IF i # 0 /\ i <= Len(row) /\ row[i].k # "none"
             THEN row[i]
             ELSE grab(row, Tail(names), default)

\* the reliability cell of a row ("~" stands for the en dash of the alias)
ReliabilityCell(row) ==
    grab(row, << <<"R","e","l","i","a","b","i","l","i","t","y"," ","R","a","t","e"," ","1","-","1","0">>, <<"R","e","l","i","a","b","i","l","i","t","y"," ","R","a","t","e"," ","1","~","1","0">>,
                 <<"R","e","l","i","a","b","i","l","i","t","y">> >>, Str(<<>>))

\* lines 127-130
Reliability(row) ==
    LET reliability_raw == Strip(PyStr(ReliabilityCell(row)))
    IN  IF reliability_raw \notin {<<>>, <<"n","a","n">>, <<"n","o","n","e">>}
        THEN reliability_raw
        ELSE <<"n","a">>

LatOf(row) == _to_float(grab(row, << <<"L","a","t","i","t","u","d","e">>, <<"L","a","t">> >>, NoneCell))
LngOf(row) == _to_float(grab(row, << <<"L","o","n","g","i","t","u","d","e">>, <<"L","n","g">>, <<"L","o","n","g">> >>, NoneCell))
RidCell(row) == grab(row, << <<"I","D">>, <<"i","d">> >>, NoneCell)

\* RidOf numbering by the position among the input rows (a fault C4 must
\* detect)
RidOfInputRow(row, kept) ==
    LET rid == RidCell(row)
    IN  IF rid.k = "none" \/ Strip(PyStr(rid)) = <<>>
        THEN Num(pos)
        ELSE rid

\* lines 152-154: the source identifier verbatim, or the count of kept
\* records so far plus one
RidOf(row, kept) ==
    LET rid == RidCell(row)
    IN  IF rid.k = "none" \/ Strip(PyStr(rid)) = <<>>
        THEN Num(Len(kept) + 1)
        ELSE rid

\* the row raises before the coordinate check (a str(...) of lines 110-133)
RaisesEarly(row) == StrRaises(ReliabilityCell(row))

\* the row raises at line 153, which only rows with valid coordinates reach
RaisesLate(row) == RidCell(row).k # "none" /\ StrRaises(RidCell(row))

\* the data rows a sheet may hold: <<ID, Reliability, Latitude, Longitude>>
Rows ==
    { << NoneCell, NoneCell, Num(39), Num(-76) >>,
      << Num(2), Str(<<"N","a","N">>), Num(90), Num(180) >>,
      << Str(<<" "," ">>), Str(<<" ","7"," ">>), Str(<<" ","3","9">>), Num(-180) >>,
      << Str(<<"2">>), Str(<<"n","o","n","e">>), Num(-90), Str(<<"-","7","6">>) >>,
      << Num(1), Num(7), Num(39), Num(-76) >>,
      << NoneCell, NaN, Num(0), Num(0) >>,
      << Num(1), Str(<<"N","o","n","e">>), NoneCell, Str(<<"a","b","c">>) >>,
      << Bad, Num(10), NaN, Num(-76) >>,
      << NoneCell, NoneCell, Num(91), Num(-76) >>,
      << Num(3), Str(<<"N","O","N","E">>), Str(<<"i","n","f">>), Num(-181) >>,
      << NoneCell, Bad, Num(39), Num(-76) >>,
      << Bad, NoneCell, Num(39), Bad >>,
      << Bad, NoneCell, Num(39), Num(-76) >> }

RECURSIVE SeqsUpTo(_, _)
SeqsUpTo(S, n) ==
    IF n = 0 THEN {<<>>}
    ELSE LET shorter == SeqsUpTo(S, n - 1)
         IN  shorter \cup {Append(q, x) : q \in {p \in shorter : Len(p) = n - 1}, x \in S}

InitDiag ==
    [parsed_rows |-> 0, skipped_no_coords |-> 0, bad_latlng |-> 0,
     errors |-> <<>>, sample_row |-> <<>>]

PrepIdle ==
    /\ inputExists = FALSE
    /\ sheet = [columns |-> {}, rows |-> <<>>]
    /\ df = [columns |-> {}, rows |-> <<>>]
    /\ parquet = [present |-> FALSE, rows |-> <<>>]
    /\ csv = [present |-> FALSE, rows |-> <<>>]
    /\ cache_map = <<>>
    /\ idx = 0
    /\ updated = 0
    /\ output = [present |-> FALSE, columns |-> {}, rows |-> <<>>]
    /\ mainPc = "idle"
    /\ run = 0
    /\ calls = <<>>
    /\ persisted = {}
    /\ recatRuns = 0
    /\ origDf = [columns |-> {}, rows |-> <<>>]

Init ==
    /\ exists \in BOOLEAN
    /\ ws \in IF exists THEN SeqsUpTo(Rows, MaxRows) ELSE {<<>>}
    /\ pos = 1
    /\ resources = <<>>
    /\ diag = InitDiag
    /\ loadPc = "start"
    /\ PrepIdle

\* lines 64-66: the file is missing
FileNotFound ==
    /\ loadPc = "start"
    /\ ~exists
    /\ diag' = [diag EXCEPT !.errors = Append(@, "File not found")]
    /\ loadPc' = "done"
    /\ UNCHANGED <<exists, ws, pos, resources, prepVars>>

\* lines 74-107: the workbook is loaded and the header map built
LoadWorkbook ==
    /\ loadPc = "start"
    /\ exists
    /\ loadPc' = "loop"
    /\ UNCHANGED <<exists, ws, pos, resources, diag, prepVars>>

\* the record of lines 156-173 (the fields the coordinates, the identifier
\* and the reliability cell decide)
Record(row, kept) ==
    [id |-> RidOf(row, kept), lat |-> LatOf(row), lng |-> LngOf(row),
     reliability |-> Reliability(row)]

\* lines 180-181: the except clause around the whole loop
HandleException ==
    /\ diag' = [diag EXCEPT !.errors = Append(@, "Exception: bad cell")]
    /\ loadPc' = "done"
    /\ UNCHANGED <<pos, resources>>

\* lines 109-174: one pass of the for loop
ProcessRow ==
    /\ loadPc = "loop"
    /\ pos <= Len(ws)
    /\ LET row == ws[pos]
           lat == LatOf(row)
           lng == LngOf(row)
       IN  IF RaisesEarly(row) THEN HandleException
           ELSE IF lat.k = "none" \/ lng.k = "none"
           THEN /\ diag' = [diag EXCEPT !.skipped_no_coords = @ + 1]
                /\ pos' = pos + 1
                /\ UNCHANGED <<resources, loadPc>>
           ELSE IF ~InRange(lat, lng)
           THEN /\ diag' = [diag EXCEPT !.bad_latlng = @ + 1]
                /\ pos' = pos + 1
                /\ UNCHANGED <<resources, loadPc>>
           ELSE IF RaisesLate(row) THEN HandleException
           ELSE /\ resources' = Append(resources, Record(row, resources))
                /\ pos' = pos + 1
                /\ UNCHANGED <<diag, loadPc>>
    /\ UNCHANGED <<exists, ws, prepVars>>

\* lines 176-178 and 183: the loop is over
FinishLoad ==
    /\ loadPc = "loop"
    /\ pos > Len(ws)
    /\ diag' = [diag EXCEPT !.parsed_rows = Len(resources),
                            !.sample_row = IF resources = <<>> THEN <<>>
                                            ELSE <<resources[1]>>]
    /\ loadPc' = "done"
    /\ UNCHANGED <<exists, ws, pos, resources, prepVars>>

Next == FileNotFound \/ LoadWorkbook \/ ProcessRow \/ FinishLoad

Spec == Init /\ [][Next]_vars

-----------------------------------------------------------------------------
(* MISC/xlsx_processor.py: configuration *)

ADDRESS_COL == "Address"
CATEGORY_COL == "Cateogry of Help"
\* CATEGORY_COL + " (Original)"
backup_col == "Cateogry of Help (Original)"
RUN_GEOCODING == TRUE
RUN_RECAT == TRUE

\* pd.isna(x)
isna(x) == x.k \in {"none", "nan"}

\* norm_addr(s)
norm_addr(s) == IF isna(s) THEN <<>> ELSE SquashWs(Strip(PyStr(s)))

-----------------------------------------------------------------------------
(* classify_category *)

OtherUncategorized == <<"O","t","h","e","r"," ","/"," ","U","n","c","a","t","e","g","o","r","i","z","e","d">>

\* the keyword lists in the order the if-chain tries them
Taxonomy == <<
    [name |-> <<"V","e","t","e","r","a","n"," ","S","e","r","v","i","c","e","s">>,
     kws |-> << <<"v","e","t","e","r","a","n">>, <<"v","a"," ","h","e","a","l","t","h">>, <<"v","a"," ","c","l","i","n","i","c">> >>],
    [name |-> <<"S","a","f","e","t","y"," ","&"," ","A","n","t","i","-","V","i","o","l","e","n","c","e">>,
     kws |-> << <<"d","o","m","e","s","t","i","c"," ","v","i","o","l","e","n","c","e">>, <<"d","v">>, <<"s","e","x","u","a","l"," ","a","s","s","a","u","l","t">>,
                <<"i","n","t","i","m","a","t","e"," ","p","a","r","t","n","e","r">>, <<"s","a","f","e"," ","h","o","u","s","e">>, <<"v","i","o","l","e","n","c","e">>,
                <<"t","r","a","f","f","i","c","k","i","n","g">> >>],
    [name |-> <<"B","e","h","a","v","i","o","r","a","l"," ","H","e","a","l","t","h",","," ","S","u","b","s","t","a","n","c","e"," ","U","s","e",","," ","&"," ","C","r","i","s","i","s">>,
     kws |-> << <<"b","e","h","a","v","i","o","r","a","l"," ","h","e","a","l","t","h">>, <<"m","e","n","t","a","l"," ","h","e","a","l","t","h">>, <<"p","s","y","c","h","i","a","t">>,
                <<"c","o","u","n","s","e","l","i","n","g">>, <<"c","r","i","s","i","s">>, <<"h","o","t","l","i","n","e">>,
                <<"s","u","i","c","i","d","e">>, <<"h","a","r","m"," ","r","e","d","u","c","t","i","o","n">>, <<"o","v","e","r","d","o","s","e">>,
                <<"s","u","b","s","t","a","n","c","e"," ","u","s","e">>, <<"a","d","d","i","c","t","i","o","n">>, <<"r","e","c","o","v","e","r","y">>,
                <<"m","a","t"," ","p","r","o","g","r","a","m">>, <<"p","e","e","r"," ","s","u","p","p","o","r","t">> >>],
    [name |-> <<"P","h","y","s","i","c","a","l"," ","&"," ","G","e","n","e","r","a","l"," ","H","e","a","l","t","h"," ","C","a","r","e">>,
     kws |-> << <<"h","e","a","l","t","h","c","a","r","e">>, <<"h","e","a","l","t","h"," ","c","a","r","e">>, <<"h","e","a","l","t","h"," ","c","e","n","t","e","r">>,
                <<"c","l","i","n","i","c">>, <<"m","e","d","i","c","a","l">>, <<"h","o","s","p","i","t","a","l">>,
                <<"f","q","h">>, <<"f","q","h","c">>, <<"s","l","i","d","i","n","g"," ","s","c","a","l","e">>,
                <<"c","h","a","r","i","t","y"," ","c","a","r","e">>, <<"v","i","s","i","o","n">>, <<"d","e","n","t","a","l">>,
                <<"w","o","m","e","n","/","l","g","b","t","q">>, <<"l","g","b","t","q","+"," ","h","e","a","l","t","h">> >>],
    [name |-> <<"H","o","u","s","i","n","g"," ","&"," ","S","h","e","l","t","e","r">>,
     kws |-> << <<"s","h","e","l","t","e","r">>, <<"h","o","u","s","i","n","g">>, <<"s","u","p","p","o","r","t","i","v","e"," ","h","o","u","s","i","n","g">>,
                <<"e","m","e","r","g","e","n","c","y"," ","s","h","e","l","t","e","r">>, <<"t","r","a","n","s","i","t","i","o","n","a","l">>, <<"s","a","f","e"," ","h","a","v","e","n">>,
                <<"o","v","e","r","n","i","g","h","t">>, <<"r","a","p","i","d"," ","r","e","h","o","u","s","i","n","g">>, <<"t","e","n","a","n","t">>,
                <<"l","a","n","d","l","o","r","d">>, <<"h","o","m","e","o","w","n","e","r","s","h","i","p">>, <<"h","o","m","e"," ","r","e","p","a","i","r">> >>],
    [name |-> <<"F","o","o","d"," ","&"," ","E","s","s","e","n","t","i","a","l"," ","N","e","e","d","s">>,
     kws |-> << <<"f","o","o","d">>, <<"p","a","n","t","r","y">>, <<"s","o","u","p"," ","k","i","t","c","h","e","n">>,
                <<"m","e","a","l">>, <<"m","e","a","l","s">>, <<"g","r","o","c","e","r","i","e","s">>,
                <<"g","r","o","c","e","r","y">>, <<"c","l","o","t","h","i","n","g">>, <<"c","l","o","t","h","e","s">>,
                <<"b","a","s","i","c"," ","n","e","e","d","s">>, <<"e","s","s","e","n","t","i","a","l","s">>, <<"h","o","u","s","e","h","o","l","d"," ","g","o","o","d","s">>,
                <<"d","a","y"," ","c","e","n","t","e","r">>, <<"d","a","y"," ","r","e","s","o","u","r","c","e">> >>],
    [name |-> <<"F","i","n","a","n","c","i","a","l"," ","&"," ","A","c","c","e","s","s"," ","S","u","p","p","o","r","t">>,
     kws |-> << <<"b","e","n","e","f","i","t","s">>, <<"a","s","s","i","s","t","a","n","c","e"," ","p","r","o","g","r","a","m">>, <<"f","i","n","a","n","c","i","a","l"," ","a","s","s","i","s","t","a","n","c","e">>,
                <<"c","a","s","h">>, <<"i","n","c","o","m","e"," ","s","u","p","p","o","r","t">>, <<"t","a","x"," ","c","r","e","d","i","t">>,
                <<"t","a","x"," ","h","e","l","p">>, <<"u","t","i","l","i","t","y"," ","a","s","s","i","s","t","a","n","c","e">>, <<"u","t","i","l","i","t","i","e","s">>,
                <<"e","l","e","c","t","r","i","c">>, <<"g","a","s"," ","b","i","l","l">>, <<"w","a","t","e","r"," ","b","i","l","l">>,
                <<"c","o","m","m","u","n","i","c","a","t","i","o","n","s"," ","d","i","s","c","o","u","n","t">>, <<"l","i","f","e","l","i","n","e">>, <<"d","i","g","i","t","a","l"," ","a","c","c","e","s","s">>,
                <<"i","n","t","e","r","n","e","t">>, <<"b","r","o","a","d","b","a","n","d">> >>],
    [name |-> <<"E","m","p","l","o","y","m","e","n","t",","," ","T","r","a","i","n","i","n","g",","," ","&"," ","E","d","u","c","a","t","i","o","n">>,
     kws |-> << <<"e","m","p","l","o","y","m","e","n","t">>, <<"j","o","b">>, <<"j","o","b","s">>,
                <<"c","a","r","e","e","r">>, <<"w","o","r","k","f","o","r","c","e">>, <<"t","r","a","i","n","i","n","g">>,
                <<"j","o","b"," ","t","r","a","i","n","i","n","g">>, <<"v","o","c","a","t","i","o","n","a","l">>, <<"r","e","h","a","b","i","l","i","t","a","t","i","o","n">>,
                <<"a","p","p","r","e","n","t","i","c","e">>, <<"i","n","t","e","r","n","s","h","i","p">>, <<"r","e","s","u","m","e">>,
                <<"i","n","t","e","r","v","i","e","w"," ","s","k","i","l","l","s">>, <<"y","o","u","t","h"," ","e","m","p","l","o","y","m","e","n","t">>, <<"s","u","m","m","e","r"," ","j","o","b","s">>,
                <<"e","d","u","c","a","t","i","o","n","/","e","m","p","l","o","y","m","e","n","t">>, <<"g","e","d">>, <<"a","d","u","l","t"," ","e","d","u","c","a","t","i","o","n">> >>],
    [name |-> <<"Y","o","u","t","h",","," ","F","a","m","i","l","y",","," ","&"," ","G","e","n","e","r","a","l"," ","S","u","p","p","o","r","t"," ","S","e","r","v","i","c","e","s">>,
     kws |-> << <<"y","o","u","t","h">>, <<"t","e","e","n">>, <<"f","a","m","i","l","y">>,
                <<"c","h","i","l","d">>, <<"c","h","i","l","d","r","e","n">>, <<"e","a","r","l","y"," ","c","h","i","l","d","h","o","o","d">>,
                <<"f","a","m","i","l","y"," ","s","u","p","p","o","r","t">>, <<"p","a","r","e","n","t","i","n","g">>, <<"m","e","n","t","o","r">>,
                <<"d","r","o","p","-","i","n">>, <<"a","d","v","o","c","a","c","y">>, <<"c","o","m","m","u","n","i","t","y"," ","s","p","a","c","e">>,
                <<"c","o","m","m","u","n","i","t","y"," ","c","e","n","t","e","r">>, <<"c","u","l","t","u","r","e"," ","&"," ","f","o","o","d"," ","a","c","c","e","s","s">>, <<"c","o","m","m","u","n","i","t","y"," ","s","e","r","v","i","c","e","s">> >>] >>

\* any(k in s for k in kws)
AnyKeyword(s, kws) == \E i \in 1..Len(kws) : Contains(s, kws[i])

classify_category(text) ==
    IF isna(text) THEN OtherUncategorized
    ELSE LET s == Lower(Strip(PyStr(text)))
             hits == {i \in 1..Len(Taxonomy) : AnyKeyword(s, Taxonomy[i].kws)}
         IN  IF hits = {} THEN OtherUncategorized
             ELSE Taxonomy[CHOOSE i \in hits : \A j \in hits : i <= j].name

\* recategorize_categories writing the backup on every run (a fault C8 must
\* detect)
recategorize_clobbering(d) ==
    IF CATEGORY_COL \notin d.columns THEN d
    ELSE [columns |-> d.columns \cup {backup_col},
          rows |-> [i \in 1..Len(d.rows) |->
                       [d.rows[i] EXCEPT
                           !.Original = d.rows[i].Category,
                           !.Category = Str(classify_category(d.rows[i].Category))]]]

\* recategorize_categories(df)
recategorize_categories(d) ==
    IF CATEGORY_COL \notin d.columns THEN d
    ELSE LET backed ==
                 IF backup_col \notin d.columns
                 THEN [columns |-> d.columns \cup {backup_col},
                       rows |-> [i \in 1..Len(d.rows) |->
                                    [d.rows[i] EXCEPT !.Original = d.rows[i].Category]]]
                 ELSE d
         IN  [backed EXCEPT !.rows =
                 [i \in 1..Len(backed.rows) |->
                     [backed.rows[i] EXCEPT
                         !.Category = Str(classify_category(backed.rows[i].Category))]]]

-----------------------------------------------------------------------------
(* geocode_addresses and main *)

LoadIdle ==
    /\ exists = FALSE
    /\ ws = <<>>
    /\ pos = 1
    /\ resources = <<>>
    /\ diag = InitDiag
    /\ loadPc = "idle"

NoFile == [present |-> FALSE, rows |-> <<>>]
NoSheet == [columns |-> {}, rows |-> <<>>]

\* the rows an input sheet may hold
PrepRows ==
    { [Address |-> Str(<<"1"," ","M","a","i","n">>), Latitude |-> NoneCell, Longitude |-> NoneCell,
       Category |-> Str(<<"f","o","o","d"," ","p","a","n","t","r","y">>), Original |-> NoneCell],
      [Address |-> Str(<<" ","1"," "," ","M","a","i","n"," ">>), Latitude |-> NoneCell, Longitude |-> NoneCell,
       Category |-> Str(<<"U","t","i","l","i","t","i","e","s"," ","h","e","l","p">>), Original |-> NoneCell],
      [Address |-> Str(<<"2"," ","O","a","k">>), Latitude |-> NoneCell, Longitude |-> NoneCell,
       Category |-> NoneCell, Original |-> NoneCell],
      [Address |-> Str(<<"2"," ","O","a","k">>), Latitude |-> Num(40), Longitude |-> Num(-75),
       Category |-> Str(<<"d","e","n","t","a","l"," ","c","l","i","n","i","c">>), Original |-> NoneCell],
      [Address |-> Str(<<"1"," ","M","a","i","n">>), Latitude |-> Num(39), Longitude |-> NoneCell,
       Category |-> Str(<<"f","o","o","d"," ","p","a","n","t","r","y">>), Original |-> NoneCell],
      [Address |-> NoneCell, Latitude |-> NoneCell, Longitude |-> NoneCell,
       Category |-> Str(<<"f","o","o","d"," ","p","a","n","t","r","y">>), Original |-> NoneCell],
      [Address |-> Str(<<" "," ">>), Latitude |-> NoneCell, Longitude |-> NoneCell,
       Category |-> NoneCell, Original |-> NoneCell] }

\* the column sets an input sheet may have
Layouts ==
    { {ADDRESS_COL, CATEGORY_COL, "Latitude", "Longitude"},
      {ADDRESS_COL, CATEGORY_COL},
      {CATEGORY_COL, "Latitude", "Longitude"},
      {ADDRESS_COL, "Latitude", "Longitude"} }

\* a row of a sheet with the given columns: a column the sheet lacks holds
\* nothing
Project(r, cols) ==
    [Address |-> IF ADDRESS_COL \in cols THEN r.Address ELSE NoneCell,
     Latitude |-> IF "Latitude" \in cols THEN r.Latitude ELSE NoneCell,
     Longitude |-> IF "Longitude" \in cols THEN r.Longitude ELSE NoneCell,
     Category |-> IF CATEGORY_COL \in cols THEN r.Category ELSE NoneCell,
     Original |-> NoneCell]

Sheets ==
    { [columns |-> cols, rows |-> [i \in 1..Len(q) |-> Project(q[i], cols)]] :
          cols \in Layouts, q \in SeqsUpTo(PrepRows, MaxPrepRows) }

\* the answer of the geocoding provider for an address it finds
Locate(addr) == IF addr = <<"1"," ","M","a","i","n">> THEN <<39, -76>> ELSE <<40, -75>>

\* addr in cache_map
InCache(cm, addr) == \E i \in 1..Len(cm) : cm[i].query = addr

\* cache_map[addr]
CacheGet(cm, addr) == cm[CHOOSE i \in 1..Len(cm) : cm[i].query = addr]

\* cache_map[addr] = (lat, lng)
CacheSet(cm, addr, lat, lng) ==
    LET e == [query |-> addr, lat |-> lat, lng |-> lng]
    IN  IF InCache(cm, addr)
        THEN [i \in 1..Len(cm) |-> IF cm[i].query = addr THEN e ELSE cm[i]]
        ELSE Append(cm, e)

\* line 64: dict(zip(cache["query"], cache[["lat", "lng"]].to_records()))
RECURSIVE DictOfRows(_)
DictOfRows(rows) ==
    IF rows = <<>> THEN <<>>
    ELSE LET last == rows[Len(rows)]
         IN  CacheSet(DictOfRows(SubSeq(rows, 1, Len(rows) - 1)),
                      last.query, last.lat, last.lng)

\* CacheAfterHit leaving the lookup out of the cache (a fault C7 must detect)
CacheNotWritten(cm, addr, lat, lng) == cm

\* line 106: a successful live lookup is written into cache_map
CacheAfterHit(cm, addr, lat, lng) == CacheSet(cm, addr, lat, lng)

InitPrep ==
    /\ LoadIdle
    /\ inputExists \in BOOLEAN
    /\ sheet \in IF inputExists THEN Sheets ELSE {NoSheet}
    /\ df = NoSheet
    /\ parquet = NoFile
    /\ csv = NoFile
    /\ cache_map = <<>>
    /\ idx = 0
    /\ updated = 0
    /\ output = [present |-> FALSE, columns |-> {}, rows |-> <<>>]
    /\ mainPc = "start"
    /\ run = 1
    /\ calls = <<>>
    /\ persisted = {}
    /\ recatRuns = 0
    /\ origDf = NoSheet

\* lines 246-247: main raises FileNotFoundError
MainMissingInput ==
    /\ mainPc = "start"
    /\ ~inputExists
    /\ mainPc' = "raised"
    /\ UNCHANGED <<loadVars, inputExists, sheet, df, parquet, csv, cache_map,
                   idx, updated, output, run, calls, persisted, recatRuns, origDf>>

\* line 249: the sheet is read
MainReadExcel ==
    /\ mainPc = "start"
    /\ inputExists
    /\ df' = sheet
    /\ mainPc' = IF RUN_GEOCODING THEN "geocode" ELSE "recat"
    /\ UNCHANGED <<loadVars, inputExists, sheet, parquet, csv, cache_map,
                   idx, updated, output, run, calls, persisted, recatRuns, origDf>>

\* GeocodeMissingColumn skipping the step and going on (a fault C5 must
\* detect)
GeocodeMissingColumnSkipped ==
    /\ mainPc = "geocode"
    /\ ADDRESS_COL \notin df.columns
    /\ mainPc' = "recat"
    /\ UNCHANGED <<loadVars, inputExists, sheet, df, parquet, csv, cache_map,
                   idx, updated, output, run, calls, persisted, recatRuns, origDf>>

\* lines 48-49: geocode_addresses raises ValueError, which main does not catch
GeocodeMissingColumn ==
    /\ mainPc = "geocode"
    /\ ADDRESS_COL \notin df.columns
    /\ mainPc' = "raised"
    /\ UNCHANGED <<loadVars, inputExists, sheet, df, parquet, csv, cache_map,
                   idx, updated, output, run, calls, persisted, recatRuns, origDf>>

\* lines 51-75: the output columns are prepared and the cache is loaded; a
\* read of the parquet file that fails leaves the cache empty
GeocodeBegin ==
    /\ mainPc = "geocode"
    /\ ADDRESS_COL \in df.columns
    /\ df' = [df EXCEPT !.columns = @ \cup {"Latitude", "Longitude"}]
    /\ \E readOk \in BOOLEAN :
           cache_map' = IF parquet.present /\ readOk
                        THEN DictOfRows(parquet.rows)
                        ELSE <<>>
    /\ idx' = 1
    /\ updated' = 0
    /\ calls' = <<>>
    /\ mainPc' = "loop"
    /\ UNCHANGED <<loadVars, inputExists, sheet, parquet, csv, output, run,
                   persisted, recatRuns, origDf>>

\* lines 78-107: one pass of the geocoding loop
GeocodeRow ==
    /\ mainPc = "loop"
    /\ idx <= Len(df.rows)
    /\ LET row == df.rows[idx]
           addr == norm_addr(row.Address)
           filled == ~isna(row.Latitude) /\ ~isna(row.Longitude)
       IN  IF addr = <<>> \/ filled
           THEN UNCHANGED <<df, cache_map, updated, calls>>
           ELSE IF InCache(cache_map, addr)
           THEN /\ df' = [df EXCEPT
                            !.rows[idx].Latitude = Num(CacheGet(cache_map, addr).lat),
                            !.rows[idx].Longitude = Num(CacheGet(cache_map, addr).lng)]
                /\ UNCHANGED <<cache_map, updated, calls>>
           ELSE \E found \in BOOLEAN :
                   /\ calls' = Append(calls, [addr |-> addr, row |-> idx, found |-> found,
                                           cached |-> InCache(cache_map, addr)])
                   /\ IF found
                      THEN LET loc == Locate(addr)
                           IN  /\ df' = [df EXCEPT
                                           !.rows[idx].Latitude = Num(loc[1]),
                                           !.rows[idx].Longitude = Num(loc[2])]
                               /\ cache_map' = CacheAfterHit(cache_map, addr, loc[1], loc[2])
                               /\ updated' = updated + 1
                      ELSE UNCHANGED <<df, cache_map, updated>>
    /\ idx' = idx + 1
    /\ UNCHANGED <<loadVars, inputExists, sheet, parquet, csv, output, mainPc,
                   run, persisted, recatRuns, origDf>>

\* lines 109-120: the cache is saved, as parquet or, when that write fails,
\* as CSV
SaveCache ==
    /\ mainPc = "loop"
    /\ idx > Len(df.rows)
    /\ \E writeOk \in BOOLEAN :
           IF writeOk
           THEN /\ parquet' = [present |-> TRUE, rows |-> cache_map]
                /\ UNCHANGED csv
           ELSE /\ csv' = [present |-> TRUE, rows |-> cache_map]
                /\ UNCHANGED parquet
    /\ persisted' = persisted \cup {cache_map[i] : i \in 1..Len(cache_map)}
    /\ mainPc' = "recat"
    /\ UNCHANGED <<loadVars, inputExists, sheet, df, cache_map, idx, updated,
                   output, run, calls, recatRuns, origDf>>

\* lines 258-261
MainRecategorize ==
    /\ mainPc = "recat"
    /\ df' = IF RUN_RECAT THEN recategorize_categories(df) ELSE df
    /\ mainPc' = "write"
    /\ UNCHANGED <<loadVars, inputExists, sheet, parquet, csv, cache_map, idx,
                   updated, output, run, calls, persisted, recatRuns, origDf>>

\* lines 264-265
MainWriteOutput ==
    /\ mainPc = "write"
    /\ output' = [present |-> TRUE, columns |-> df.columns, rows |-> df.rows]
    /\ mainPc' = "done"
    /\ UNCHANGED <<loadVars, inputExists, sheet, df, parquet, csv, cache_map,
                   idx, updated, run, calls, persisted, recatRuns, origDf>>

\* the utility is started again on the same input; the files on disk stay
NextRun ==
    /\ mainPc \in {"done", "raised"}
    /\ run < MaxRuns
    /\ run' = run + 1
    /\ mainPc' = "start"
    /\ df' = NoSheet
    /\ cache_map' = <<>>
    /\ idx' = 0
    /\ updated' = 0
    /\ calls' = <<>>
    /\ UNCHANGED <<loadVars, inputExists, sheet, parquet, csv, output,
                   persisted, recatRuns, origDf>>

NextPrep ==
    \/ MainMissingInput
    \/ MainReadExcel
    \/ GeocodeMissingColumn
    \/ GeocodeBegin
    \/ GeocodeRow
    \/ SaveCache
    \/ MainRecategorize
    \/ MainWriteOutput
    \/ NextRun

SpecPrep == InitPrep /\ [][NextPrep]_vars

-----------------------------------------------------------------------------
(* recategorize_categories applied again and again to one table *)

TaxonomyNames == {Taxonomy[i].name : i \in 1..Len(Taxonomy)} \cup {OtherUncategorized}

\* the values a category cell may hold: raw free text, nothing, and the
\* names of the taxonomy (a table that was recategorized before)
CategoryCells ==
    {Str(c) : c \in TaxonomyNames}
        \cup {NoneCell, Str(<<" ","F","o","o","d"," ","P","a","n","t","r","y"," ">>), Str(<<"V","E","T","E","R","A","N"," ","m","e","a","l","s">>),
              Str(<<"U","t","i","l","i","t","i","e","s"," ","h","e","l","p">>)}

\* the values a backup cell of an earlier recategorization may hold
OriginalCells == {Str(<<"f","r","e","e"," ","m","e","a","l","s">>)}

RecatRows ==
    { [Address |-> NoneCell, Latitude |-> NoneCell, Longitude |-> NoneCell,
       Category |-> c, Original |-> o] : c \in CategoryCells, o \in OriginalCells }

RecatLayouts == { {CATEGORY_COL}, {CATEGORY_COL, backup_col}, {ADDRESS_COL} }

ProjectRecat(r, cols) ==
    [r EXCEPT !.Category = IF CATEGORY_COL \in cols THEN @ ELSE NoneCell,
              !.Original = IF backup_col \in cols THEN @ ELSE NoneCell]

RecatTables ==
    { [columns |-> cols, rows |-> [i \in 1..Len(q) |-> ProjectRecat(q[i], cols)]] :
          cols \in RecatLayouts, q \in SeqsUpTo(RecatRows, MaxRecatRows) }

InitRecat ==
    /\ LoadIdle
    /\ inputExists = FALSE
    /\ sheet = NoSheet
    /\ df \in RecatTables
    /\ parquet = NoFile
    /\ csv = NoFile
    /\ cache_map = <<>>
    /\ idx = 0
    /\ updated = 0
    /\ output = [present |-> FALSE, columns |-> {}, rows |-> <<>>]
    /\ mainPc = "idle"
    /\ run = 0
    /\ calls = <<>>
    /\ persisted = {}
    /\ recatRuns = 0
    /\ origDf = df

\* df = recategorize_categories(df)
Recategorize ==
    /\ recatRuns < MaxRecatRuns
    /\ df' = recategorize_categories(df)
    /\ recatRuns' = recatRuns + 1
    /\ UNCHANGED <<loadVars, inputExists, sheet, parquet, csv, cache_map, idx,
                   updated, output, mainPc, run, calls, persisted, origDf>>

NextRecat == Recategorize

SpecRecat == InitRecat /\ [][NextRecat]_vars

-----------------------------------------------------------------------------
(* Properties of the ingestion pass *)

\* both coordinates are present after numeric conversion
CoordsPresent(row) == LatOf(row).k # "none" /\ LngOf(row).k # "none"

\* lat in [-90, 90] and lng in [-180, 180]
CoordsWithinBounds(row) ==
    /\ LatOf(row).k = "num" /\ LatOf(row).n \in -90..90
    /\ LngOf(row).k = "num" /\ LngOf(row).n \in -180..180

PassesValidation(row) == CoordsPresent(row) /\ CoordsWithinBounds(row)

\* processing the row raises an exception
RowRaises(row) ==
    RaisesEarly(row) \/ (PassesValidation(row) /\ RaisesLate(row))

\* the row supplies a non-blank identifier
SuppliesId(row) ==
    /\ RidCell(row).k # "none"
    /\ (StrRaises(RidCell(row)) \/ Strip(PyStr(RidCell(row))) # <<>>)

\* the rows among the first n that pass validation, in input order
RECURSIVE ValidUpTo(_)
ValidUpTo(n) ==
    IF n = 0 THEN <<>>
    ELSE IF PassesValidation(ws[n]) /\ ~RowRaises(ws[n])
         THEN Append(ValidUpTo(n - 1), n)
         ELSE ValidUpTo(n - 1)

Loaded == loadPc = "done" /\ exists

\* C1: a row whose processing raises is caught, one message is recorded and
\* the loop goes on: at the end every row with valid coordinates that does
\* not itself raise has been kept, parsed_rows is the number of kept records
\* and there is one message per raising row.
C1_RowFailureDoesNotAbort ==
    Loaded =>
        /\ Len(resources) = Len(ValidUpTo(Len(ws)))
        /\ diag.parsed_rows = Len(resources)
        /\ Len(diag.errors) = Cardinality({i \in 1..Len(ws) : RowRaises(ws[i])})

\* C2: without a row exception every row the loop has passed is accounted
\* for exactly once: absent coordinates add 1 to skipped_no_coords,
\* out-of-range coordinates add 1 to bad_latlng, every other row is kept in
\* input order with its coordinates within bounds; at the end the three
\* counts add up to the number of input rows.
C2_EveryRowAccountedOnce ==
    (loadPc # "start" /\ diag.errors = <<>>) =>
        LET n == pos - 1
            kept == ValidUpTo(n)
        IN  /\ diag.skipped_no_coords =
                   Cardinality({i \in 1..n : ~CoordsPresent(ws[i])})
            /\ diag.bad_latlng =
                   Cardinality({i \in 1..n : CoordsPresent(ws[i])
                                             /\ ~CoordsWithinBounds(ws[i])})
            /\ Len(resources) = Len(kept)
            /\ \A j \in 1..Len(resources) :
                   /\ resources[j].lat = LatOf(ws[kept[j]])
                   /\ resources[j].lng = LngOf(ws[kept[j]])
                   /\ resources[j].lat.n \in -90..90
                   /\ resources[j].lng.n \in -180..180
            /\ Len(resources) + diag.skipped_no_coords + diag.bad_latlng = n
            /\ loadPc = "done" =>
                   /\ n = Len(ws)
                   /\ diag.parsed_rows = Len(resources)

C2_Witness ==
    /\ Loaded
    /\ diag.errors = <<>>
    /\ diag.skipped_no_coords >= 1
    /\ diag.bad_latlng >= 1
    /\ Len(resources) >= 1

\* C3: no two kept records of one load have the same id.
C3_IdsUnique ==
    \A i, j \in 1..Len(resources) : i # j => resources[i].id # resources[j].id

\* C4: when no row supplies an identifier, the ids of the kept records are
\* 1..N in row order, N being the number of rows passed so far that pass
\* coordinate validation, whatever dropped rows lie between them.
C4_SequentialIds ==
    (loadPc # "start" /\ \A i \in 1..Len(ws) : ~SuppliesId(ws[i])) =>
        LET N == Len(ValidUpTo(pos - 1))
        IN  /\ [j \in 1..Len(resources) |-> resources[j].id]
                   = [j \in 1..N |-> Num(j)]
            /\ (loadPc = "done" /\ diag.errors = <<>>) => pos - 1 = Len(ws)

C4_Witness ==
    /\ Loaded
    /\ \A i \in 1..Len(ws) : ~SuppliesId(ws[i])
    /\ diag.errors = <<>>
    /\ Len(resources) >= 2
    /\ \E i, j, k \in 1..Len(ws) :
           /\ i < j /\ j < k
           /\ PassesValidation(ws[i])
           /\ ~PassesValidation(ws[j])
           /\ PassesValidation(ws[k])

\* the reliability the record is to have: the trimmed text, or "na" when it
\* is blank, "nan" or "none" in any letter case
ReliabilityIgnoringCase(row) ==
    LET raw == Strip(PyStr(ReliabilityCell(row)))
    IN  IF Lower(raw) \in {<<>>, <<"n","a","n">>, <<"n","o","n","e">>} THEN <<"n","a">> ELSE raw

\* C9: the reliability of a kept record is the trimmed cell text, or "na"
\* when that text is blank or equals "nan" or "none" case-insensitively.
C9_ReliabilityCaseInsensitive ==
    (loadPc # "start") =>
        LET kept == ValidUpTo(pos - 1)
        IN  \A j \in 1..Len(resources) :
                j <= Len(kept) =>
                    resources[j].reliability = ReliabilityIgnoringCase(ws[kept[j]])

-----------------------------------------------------------------------------
(* Properties of the preparation pipeline *)

CacheLoaded == mainPc \in {"loop", "recat", "write", "done"}

\* C6: every (query, lat, lng) entry a run has persisted is, with the same
\* coordinates, in the cache every later run loads.
C6_CacheAppendOnly ==
    CacheLoaded => \A e \in persisted : \E i \in 1..Len(cache_map) : cache_map[i] = e

\* the rows of the current run the loop has passed
Passed == 1..(idx - 1)

\* the row had both coordinates before the run
WasFilled(i) == ~isna(sheet.rows[i].Latitude) /\ ~isna(sheet.rows[i].Longitude)

\* C7: within one run a successful live lookup is in the cache before the
\* next row: no address is looked up again after a successful lookup, no
\* lookup is made for an address of the loaded cache or for a row with both
\* coordinates filled, a later row with the same normalized address and
\* unfilled coordinates gets the cached coordinates, and 'updated' counts
\* the rows filled by a live lookup.
C7_LookupCachedImmediately ==
    CacheLoaded =>
        /\ \A i, j \in 1..Len(calls) :
               (i < j /\ calls[i].found) => calls[j].addr # calls[i].addr
        /\ \A j \in 1..Len(calls) :
               /\ calls[j].row \in Passed
               /\ calls[j].addr = norm_addr(sheet.rows[calls[j].row].Address)
               /\ calls[j].addr # <<>>
               /\ ~WasFilled(calls[j].row)
               /\ ~calls[j].cached
               /\ calls[j].found =>
                      /\ InCache(cache_map, calls[j].addr)
                      /\ df.rows[calls[j].row].Latitude =
                             Num(CacheGet(cache_map, calls[j].addr).lat)
                      /\ df.rows[calls[j].row].Longitude =
                             Num(CacheGet(cache_map, calls[j].addr).lng)
        /\ \A r \in Passed :
               LET a == norm_addr(sheet.rows[r].Address)
               IN  (/\ ~WasFilled(r)
                    /\ \E j \in 1..Len(calls) :
                           calls[j].found /\ calls[j].addr = a /\ calls[j].row < r) =>
                       /\ \A j \in 1..Len(calls) : calls[j].row # r
                       /\ df.rows[r].Latitude = Num(CacheGet(cache_map, a).lat)
                       /\ df.rows[r].Longitude = Num(CacheGet(cache_map, a).lng)
        /\ updated = Cardinality({j \in 1..Len(calls) : calls[j].found})
        /\ updated = Cardinality({r \in Passed :
                        /\ \E j \in 1..Len(calls) : calls[j].row = r /\ calls[j].found})

C7_Witness ==
    /\ mainPc = "loop"
    /\ idx > Len(df.rows)
    /\ \E j \in 1..Len(calls) :
           /\ calls[j].found
           /\ \E r \in Passed :
                  /\ r > calls[j].row
                  /\ norm_addr(sheet.rows[r].Address) = calls[j].addr
                  /\ ~WasFilled(r)
                  /\ ~isna(df.rows[r].Latitude)
                  /\ ~isna(df.rows[r].Longitude)
    /\ updated = 1

\* C8: after any number (>= 1) of runs of recategorize_categories on a
\* table, the "(Original)" column holds the values the category column had
\* before the first run that created it: a later run leaves it unchanged.
C8_BackupWrittenOnce ==
    (recatRuns >= 1 /\ CATEGORY_COL \in origDf.columns) =>
        /\ backup_col \in df.columns
        /\ Len(df.rows) = Len(origDf.rows)
        /\ \A i \in 1..Len(df.rows) :
               df.rows[i].Original =
                   IF backup_col \in origDf.columns
                   THEN origDf.rows[i].Original
                   ELSE origDf.rows[i].Category

C8_Witness ==
    /\ recatRuns >= 2
    /\ CATEGORY_COL \in origDf.columns
    /\ backup_col \notin origDf.columns
    /\ \E i \in 1..Len(df.rows) :
           /\ df.rows[i].Original = origDf.rows[i].Category
           /\ df.rows[i].Original # df.rows[i].Category

\* C10: the classifier is idempotent on its own outputs: every name c of
\* the taxonomy has classify_category(c) = c, so that a further run on
\* recategorized output leaves the category column unchanged.
C10_ClassifierIdempotent ==
    recatRuns >= 1 =>
        \A i \in 1..Len(df.rows) :
            recategorize_categories(df).rows[i].Category = df.rows[i].Category

=============================================================================
